---- MODULE Spec2Model ----
(***************************************************************************)
(* Boolean retrieval engine: tokenizer, stemmer, index builder, index      *)
(* codec and query engine (lab3_text/cpp/tokenizer.cpp, stemmer.hpp,       *)
(* lab4_bool/builder.cpp: the builder and the bsearch programs).           *)
(*                                                                         *)
(* A std::string is a sequence of bytes 0..255.  The C++ code indexes      *)
(* from 0; At and Substr keep its 0-based positions.                       *)
(***************************************************************************)
EXTENDS Integers, Sequences, FiniteSets, TLC

VARIABLES
  tk_pc, tk_cfg, tk_text, tk_tokens,             \* tokenizer program
  st_pc, st_term, st_out,                        \* a call of stem_token
  b_pc, b_use_stem, corpus, idx, doc_id, file,   \* builder program, index file
  s_pc, s_use_stem, loaded, query, result, printed, outcome, asked  \* bsearch program

vars == << tk_pc, tk_cfg, tk_text, tk_tokens,
           st_pc, st_term, st_out,
           b_pc, b_use_stem, corpus, idx, doc_id, file,
           s_pc, s_use_stem, loaded, query, result, printed, outcome, asked >>

tk_vars == << tk_pc, tk_cfg, tk_text, tk_tokens >>
st_vars == << st_pc, st_term, st_out >>
b_vars == << b_pc, b_use_stem, corpus, idx, doc_id >>
s_vars == << s_pc, s_use_stem, loaded, query, result, printed, outcome, asked >>

-----------------------------------------------------------------------------
(* Bounds of the model *)

\* longest input text given to the tokenizer
MaxTextLen == 4
\* most corpus lines the builder reads
MaxLines == 3
\* most words of a generated query line
MaxQueryWords == 4
\* a count or length above this makes the loader's allocation fail
MaxAlloc == 64
\* most characters before the ending of a term given to the stemmer
MaxStemChars == 2

-----------------------------------------------------------------------------
(* Bytes and strings *)

\* ASCII codes of the printable characters
Code ==
     " " :> 32 @@ "!" :> 33 @@ "\"" :> 34 @@ "#" :> 35 @@ "$" :> 36 @@ "%" :> 37
  @@ "&" :> 38 @@ "'" :> 39 @@ "(" :> 40 @@ ")" :> 41 @@ "*" :> 42 @@ "+" :> 43
  @@ "," :> 44 @@ "-" :> 45 @@ "." :> 46 @@ "/" :> 47 @@ "0" :> 48 @@ "1" :> 49
  @@ "2" :> 50 @@ "3" :> 51 @@ "4" :> 52 @@ "5" :> 53 @@ "6" :> 54 @@ "7" :> 55
  @@ "8" :> 56 @@ "9" :> 57 @@ ":" :> 58 @@ ";" :> 59 @@ "<" :> 60 @@ "=" :> 61
  @@ ">" :> 62 @@ "?" :> 63 @@ "@" :> 64 @@ "A" :> 65 @@ "B" :> 66 @@ "C" :> 67
  @@ "D" :> 68 @@ "E" :> 69 @@ "F" :> 70 @@ "G" :> 71 @@ "H" :> 72 @@ "I" :> 73
  @@ "J" :> 74 @@ "K" :> 75 @@ "L" :> 76 @@ "M" :> 77 @@ "N" :> 78 @@ "O" :> 79
  @@ "P" :> 80 @@ "Q" :> 81 @@ "R" :> 82 @@ "S" :> 83 @@ "T" :> 84 @@ "U" :> 85
  @@ "V" :> 86 @@ "W" :> 87 @@ "X" :> 88 @@ "Y" :> 89 @@ "Z" :> 90 @@ "[" :> 91
  @@ "\\" :> 92 @@ "]" :> 93 @@ "^" :> 94 @@ "_" :> 95 @@ "a" :> 97
  @@ "b" :> 98 @@ "c" :> 99 @@ "d" :> 100 @@ "e" :> 101 @@ "f" :> 102 @@ "g" :> 103
  @@ "h" :> 104 @@ "i" :> 105 @@ "j" :> 106 @@ "k" :> 107 @@ "l" :> 108 @@ "m" :> 109
  @@ "n" :> 110 @@ "o" :> 111 @@ "p" :> 112 @@ "q" :> 113 @@ "r" :> 114 @@ "s" :> 115
  @@ "t" :> 116 @@ "u" :> 117 @@ "v" :> 118 @@ "w" :> 119 @@ "x" :> 120 @@ "y" :> 121
  @@ "z" :> 122 @@ "{" :> 123 @@ "|" :> 124 @@ "}" :> 125 @@ "~" :> 126

\* the bytes of a string literal written as a tuple of one-character strings
Str(t) == [i \in 1..Len(t) |-> Code[t[i]]]

\* s[i] of a std::string or std::vector, i counted from 0
At(s, i) == s[i + 1]

\* std::string::substr(pos, n)
Substr(s, pos, n) == SubSeq(s, pos + 1, pos + n)

\* the elements of a sequence as a set
SetOf(s) == {s[i] : i \in 1..Len(s)}

RECURSIVE Concat(_)
\* the concatenation of a sequence of sequences
Concat(ss) == IF ss = <<>> THEN <<>> ELSE Head(ss) \o Concat(Tail(ss))

-----------------------------------------------------------------------------
(* lab3_text/cpp/tokenizer.cpp *)

is_ascii_letter(c) == (c >= 65 /\ c <= 90) \/ (c >= 97 /\ c <= 122)

is_digit(c) == c >= 48 /\ c <= 57

is_cyrillic_start(c1, c2) ==
  \/ (c1 = 208 /\ c2 >= 128 /\ c2 <= 191)
  \/ (c1 = 209 /\ c2 >= 128 /\ c2 <= 191)

\* the result and the advance out-parameter of is_token_char
is_token_char(text, pos, keep_dashes, keep_apostrophes) ==
  IF pos >= Len(text) THEN [ok |-> FALSE, advance |-> 0]
  ELSE LET c == At(text, pos) IN
    IF is_ascii_letter(c) \/ is_digit(c) THEN [ok |-> TRUE, advance |-> 1]
    ELSE IF pos + 1 < Len(text) /\ is_cyrillic_start(c, At(text, pos + 1))
      THEN [ok |-> TRUE, advance |-> 2]
    ELSE IF keep_dashes /\ c = 45 THEN [ok |-> TRUE, advance |-> 1]
    ELSE IF keep_apostrophes /\ c = 39 THEN [ok |-> TRUE, advance |-> 1]
    ELSE [ok |-> FALSE, advance |-> 1]

RECURSIVE utf8_count_from(_, _)
utf8_count_from(str, i) ==
  IF i >= Len(str) THEN 0
  ELSE LET c == At(str, i)
           step == IF c < 128 THEN 1
                   ELSE IF c >= 192 /\ c <= 223 THEN 2   \* (c & 0xE0) == 0xC0
                   ELSE IF c >= 224 /\ c <= 239 THEN 3   \* (c & 0xF0) == 0xE0
                   ELSE IF c >= 240 /\ c <= 247 THEN 4   \* (c & 0xF8) == 0xF0
                   ELSE 1
       IN 1 + utf8_count_from(str, i + step)

utf8_char_count(str) == utf8_count_from(str, 0)

RECURSIVE to_lower_from(_, _)
to_lower_from(str, i) ==
  IF i >= Len(str) THEN <<>>
  ELSE LET c == At(str, i) IN
    IF c >= 65 /\ c <= 90 THEN <<c + 32>> \o to_lower_from(str, i + 1)
    ELSE IF i + 1 < Len(str) /\ c = 208
            /\ At(str, i + 1) >= 144 /\ At(str, i + 1) <= 175
      THEN <<208, (At(str, i + 1) + 32) % 256>> \o to_lower_from(str, i + 2)
    ELSE IF i + 1 < Len(str) /\ c = 208 /\ At(str, i + 1) = 129
      THEN <<209, 145>> \o to_lower_from(str, i + 2)
    ELSE <<c>> \o to_lower_from(str, i + 1)

to_lower(str) == to_lower_from(str, 0)

\* the scan of is_valid_token for a letter, a digit or a Cyrillic pair
has_letter_class(token) ==
  \E i \in 0..(Len(token) - 1) :
    LET c == At(token, i) IN
      \/ is_ascii_letter(c) \/ is_digit(c)
      \/ (i + 1 < Len(token) /\ is_cyrillic_start(c, At(token, i + 1)))

is_valid_token_nomin(token, min_token_length) ==
  token # <<>> /\ has_letter_class(token)

is_valid_token(token, min_token_length) ==
  IF token = <<>> THEN FALSE
  ELSE IF utf8_char_count(token) < min_token_length THEN FALSE
  ELSE has_letter_class(token)

RECURSIVE skip_separators(_, _, _)
\* the first loop of tokenize: ++i while text[i] is no token character
skip_separators(text, i, cfg) ==
  IF i < Len(text)
     /\ ~is_token_char(text, i, cfg.keep_dashes, cfg.keep_apostrophes).ok
  THEN skip_separators(text, i + 1, cfg)
  ELSE i

RECURSIVE scan_token(_, _, _)
\* the second loop of tokenize: i += advance while text[i] is a token character
scan_token(text, i, cfg) ==
  LET r == is_token_char(text, i, cfg.keep_dashes, cfg.keep_apostrophes) IN
    IF i < Len(text) /\ r.ok THEN scan_token(text, i + r.advance, cfg) ELSE i

RECURSIVE trim_front(_)
trim_front(token) ==
  IF token # <<>> /\ (Head(token) = 45 \/ Head(token) = 39)
  THEN trim_front(Tail(token)) ELSE token

RECURSIVE trim_back(_)
trim_back(token) ==
  IF token # <<>> /\ (token[Len(token)] = 45 \/ token[Len(token)] = 39)
  THEN trim_back(SubSeq(token, 1, Len(token) - 1)) ELSE token

RECURSIVE tokenize_from(_, _, _)
tokenize_from(text, i0, cfg) ==
  IF i0 >= Len(text) THEN <<>>
  ELSE LET i == skip_separators(text, i0, cfg) IN
    IF i < Len(text)
    THEN LET j == scan_token(text, i, cfg)
             raw == Substr(text, i, j - i)
             trimmed == trim_back(trim_front(raw))
             token == IF cfg.lowercase THEN to_lower(trimmed) ELSE trimmed
         IN (IF is_valid_token(token, cfg.min_token_length)
             THEN <<token>> ELSE <<>>) \o tokenize_from(text, j, cfg)
    ELSE <<>>

\* Tokenizer::tokenize under the configuration cfg
tokenize(text, cfg) == tokenize_from(text, 0, cfg)

\* Tokenizer(): the defaults of the constructor
DefaultConfig ==
  [lowercase |-> TRUE, keep_dashes |-> TRUE, keep_apostrophes |-> TRUE,
   min_token_length |-> 1]

\* the tokenizer of builder and bsearch: set_lowercase(true), set_min_token_length(2)
IndexConfig == [DefaultConfig EXCEPT !.lowercase = TRUE, !.min_token_length = 2]

-----------------------------------------------------------------------------
(* stemmer.hpp *)

has_cyrillic(s) == \E i \in 1..Len(s) : s[i] >= 208

\* word.rfind(suf) == word.size() - suf.size()
ends_with(word, suf) ==
  Len(suf) <= Len(word) /\ SubSeq(word, Len(word) - Len(suf) + 1, Len(word)) = suf

RECURSIVE strip_suffix(_, _)
strip_suffix(word, suffixes) ==
  IF suffixes = <<>> THEN word
  ELSE LET suf == Head(suffixes) IN
    IF Len(word) > Len(suf) + 1 /\ ends_with(word, suf)
    THEN Substr(word, 0, Len(word) - Len(suf))
    ELSE strip_suffix(word, Tail(suffixes))

ru_suffixes ==
  << <<208, 184, 209, 143, 208, 188, 208, 184>>,   \* -iyami (U+0438 U+044F U+043C U+0438)
     <<209, 143, 208, 188, 208, 184>>,   \* -yami (U+044F U+043C U+0438)
     <<208, 176, 208, 188, 208, 184>>,   \* -ami (U+0430 U+043C U+0438)
     <<208, 184, 208, 181, 208, 185>>,   \* -iej (U+0438 U+0435 U+0439)
     <<208, 190, 208, 185>>,   \* -oj (U+043E U+0439)
     <<208, 181, 208, 185>>,   \* -ej (U+0435 U+0439)
     <<208, 184, 208, 184>>,   \* -ii (U+0438 U+0438)
     <<208, 184, 208, 185>>,   \* -ij (U+0438 U+0439)
     <<209, 139, 208, 185>>,   \* -yj (U+044B U+0439)
     <<208, 184, 209, 143>>,   \* -iya (U+0438 U+044F)
     <<209, 140, 209, 143>>,   \* -soft-ya (U+044C U+044F)
     <<209, 143>>,   \* -ya (U+044F)
     <<208, 184, 209, 142>>,   \* -iyu (U+0438 U+044E)
     <<209, 140, 209, 142>>,   \* -soft-yu (U+044C U+044E)
     <<209, 142>>,   \* -yu (U+044E)
     <<208, 190, 208, 178>>,   \* -ov (U+043E U+0432)
     <<208, 181, 208, 178>>,   \* -ev (U+0435 U+0432)
     <<208, 181, 208, 188>>,   \* -em (U+0435 U+043C)
     <<208, 176, 208, 188>>,   \* -am (U+0430 U+043C)
     <<208, 190, 208, 188>>,   \* -om (U+043E U+043C)
     <<208, 176, 209, 133>>,   \* -ah (U+0430 U+0445)
     <<209, 143, 209, 133>>,   \* -yah (U+044F U+0445)
     <<208, 184, 209, 143, 208, 188>>,   \* -iyam (U+0438 U+044F U+043C)
     <<209, 143, 208, 188>>,   \* -yam (U+044F U+043C)
     <<208, 181, 209, 142>>,   \* -eyu (U+0435 U+044E)
     <<208, 184, 208, 181>>,   \* -ie (U+0438 U+0435)
     <<209, 139, 208, 181>>,   \* -ye (U+044B U+0435)
     <<208, 190, 208, 181>>,   \* -oe (U+043E U+0435)
     <<208, 184, 208, 181, 209, 142>>,   \* -ieyu (U+0438 U+0435 U+044E)
     <<208, 184, 208, 181, 208, 185>> >> \* -iej (U+0438 U+0435 U+0439)

en_suffixes ==
  << Str(<<"i", "n", "g", "l", "y">>),
     Str(<<"e", "d", "l", "y">>),
     Str(<<"n", "e", "s", "s">>),
     Str(<<"m", "e", "n", "t">>),
     Str(<<"i", "o", "u", "s">>),
     Str(<<"t", "i", "o", "n">>),
     Str(<<"s", "i", "o", "n">>),
     Str(<<"a", "b", "l", "e">>),
     Str(<<"i", "b", "l", "e">>),
     Str(<<"a", "l", "l", "y">>),
     Str(<<"l", "e", "s", "s">>),
     Str(<<"f", "u", "l">>),
     Str(<<"e", "s", "t">>),
     Str(<<"e", "r", "s">>),
     Str(<<"i", "e", "s">>),
     Str(<<"i", "n", "g">>),
     Str(<<"e", "d">>),
     Str(<<"l", "y">>),
     Str(<<"e", "s">>),
     Str(<<"s">>) >>

stem_token(token) ==
  IF Len(token) <= 2 THEN token
  ELSE IF has_cyrillic(token) THEN strip_suffix(token, ru_suffixes)
  ELSE strip_suffix(token, en_suffixes)

-----------------------------------------------------------------------------
(* lab4_bool/builder.cpp, the builder program *)

\* std::string::npos as the result of find
npos == -1

\* std::string::find(pat, from): the first position >= from where pat occurs
find(s, pat, from) ==
  LET hits == {p \in from..(Len(s) - Len(pat)) : Substr(s, p, Len(pat)) = pat}
  IN IF hits = {} THEN npos ELSE CHOOSE p \in hits : \A r \in hits : p <= r

\* std::isspace in the C locale
isspace(c) == c = 32 \/ (c >= 9 /\ c <= 13)

RECURSIVE decode_loop(_, _, _)
\* the while loop of decode_json_string, pos past the opening quote
decode_loop(src, pos, out) ==
  IF pos >= Len(src) THEN [ok |-> FALSE, out |-> out]
  ELSE LET c == At(src, pos) IN
    IF c = 92
    THEN IF pos + 1 >= Len(src) THEN [ok |-> FALSE, out |-> out]
         ELSE LET esc == At(src, pos + 1)
                  ch == CASE esc = 34 -> 34
                          [] esc = 92 -> 92
                          [] esc = 110 -> 10
                          [] esc = 116 -> 9
                          [] esc = 114 -> 13
                          [] OTHER -> esc
              IN decode_loop(src, pos + 2, Append(out, ch))
    ELSE IF c = 34 THEN [ok |-> TRUE, out |-> out]
    ELSE decode_loop(src, pos + 1, Append(out, c))

decode_json_string(src, pos) ==
  IF pos >= Len(src) \/ At(src, pos) # 34 THEN [ok |-> FALSE, out |-> <<>>]
  ELSE decode_loop(src, pos + 1, <<>>)

RECURSIVE skip_space(_, _)
skip_space(line, p) ==
  IF p < Len(line) /\ isspace(At(line, p)) THEN skip_space(line, p + 1) ELSE p

RECURSIVE skip_to_quote(_, _)
skip_to_quote(line, p) ==
  IF p < Len(line) /\ At(line, p) # 34 THEN skip_to_quote(line, p + 1) ELSE p

\* extract_field: [ok, out], out the decoded value when ok
extract_field(line, key) ==
  LET pattern == <<34>> \o key \o <<34>>
      p1 == find(line, pattern, 0)
      fail == [ok |-> FALSE, out |-> <<>>]
  IN IF p1 = npos THEN fail
     ELSE LET p2 == find(line, <<58>>, p1 + Len(pattern)) IN
       IF p2 = npos THEN fail
       ELSE LET p3 == skip_space(line, p2) IN
         IF p3 >= Len(line) THEN fail
         ELSE LET p4 == skip_to_quote(line, p3) IN
           IF p4 >= Len(line) THEN fail
           ELSE decode_json_string(line, p4)

\* the keys the builder extracts
key_id == Str(<<"i", "d">>)
key_text == Str(<<"t", "e", "x", "t">>)

\* Index{}: no documents, no terms
EmptyIndex == [docs |-> <<>>, postings |-> [t \in {} |-> <<>>]]

\* auto& vec = idx.postings[term]; vec.push_back(doc_id)
push_posting(postings, term, id) ==
  IF term \in DOMAIN postings
  THEN [postings EXCEPT ![term] = Append(@, id)]
  ELSE [t \in DOMAIN postings \cup {term} |->
          IF t = term THEN <<id>> ELSE postings[t]]

RECURSIVE add_postings_loop(_, _, _, _, _)
add_postings_loop(postings, id, tokens, use_stem, seen) ==
  IF tokens = <<>> THEN postings
  ELSE LET tok == Head(tokens)
           term == IF use_stem THEN stem_token(tok) ELSE tok
       IN IF term = <<>> THEN
            add_postings_loop(postings, id, Tail(tokens), use_stem, seen)
          ELSE IF term \notin seen THEN
            add_postings_loop(push_posting(postings, term, id), id,
                              Tail(tokens), use_stem, seen \cup {term})
          ELSE add_postings_loop(postings, id, Tail(tokens), use_stem, seen)

add_postings(index, id, tokens, use_stem) ==
  [index EXCEPT !.postings = add_postings_loop(@, id, tokens, use_stem, {})]

\* one iteration of the while (std::getline(in, line)) loop of main, on the
\* builder's [idx, doc_id]
read_line_skipcount(st, line, use_stem) ==
  LET id == extract_field(line, key_id)
      text == extract_field(line, key_text)
  IN IF line = <<>> \/ ~id.ok \/ ~text.ok
     THEN [st EXCEPT !.doc_id = st.doc_id + 1]
     ELSE [idx |-> add_postings(
                     [st.idx EXCEPT !.docs = Append(@, id.out)], st.doc_id,
                     tokenize(text.out, IndexConfig), use_stem),
           doc_id |-> st.doc_id + 1]

read_line(st, line, use_stem) ==
  IF line = <<>> THEN st
  ELSE LET id == extract_field(line, key_id) IN
    IF ~id.ok THEN st
    ELSE LET text == extract_field(line, key_text) IN
      IF ~text.ok THEN st
      ELSE [idx |-> add_postings(
                      [st.idx EXCEPT !.docs = Append(@, id.out)], st.doc_id,
                      tokenize(text.out, IndexConfig), use_stem),
            doc_id |-> st.doc_id + 1]

RECURSIVE unique(_)
\* std::unique and erase: one of each run of equal neighbours
unique(v) ==
  IF Len(v) <= 1 THEN v
  ELSE IF v[1] = v[2] THEN unique(Tail(v))
  ELSE <<v[1]>> \o unique(Tail(v))

sort_unique_descending(v) == unique(SortSeq(v, LAMBDA a, b : a > b))

\* std::sort(v.begin(), v.end()); v.erase(std::unique(...), v.end())
sort_unique(v) == unique(SortSeq(v, LAMBDA a, b : a < b))

\* the finalization loop over idx.postings
finalize(index) ==
  [index EXCEPT !.postings = [t \in DOMAIN @ |-> sort_unique(@[t])]]

\* the four bytes of a uint32_t, most significant first
write_uint32_be(v) ==
  << (v \div 16777216) % 256, (v \div 65536) % 256, (v \div 256) % 256, v % 256 >>

\* the four bytes of a uint32_t as the (little-endian) target stores them
write_uint32(v) ==
  << v % 256, (v \div 256) % 256, (v \div 65536) % 256, (v \div 16777216) % 256 >>

write_string(s) == write_uint32(Len(s)) \o s

\* the magic of the index file
BIDX1 == Str(<<"B", "I", "D", "X", "1">>)

\* the orders in which an unordered_map may iterate over its keys
IterationOrders(keys) ==
  {o \in [1..Cardinality(keys) -> keys] : \A i, j \in DOMAIN o : o[i] = o[j] => i = j}

\* save_index, the map iterated in the given order of its terms
save_index(index, order) ==
  BIDX1
  \o write_uint32(Len(index.docs))
  \o write_uint32(Cardinality(DOMAIN index.postings))
  \o Concat([i \in 1..Len(index.docs) |-> write_string(index.docs[i])])
  \o Concat([k \in 1..Len(order) |->
        write_string(order[k])
        \o write_uint32(Len(index.postings[order[k]]))
        \o Concat([i \in 1..Len(index.postings[order[k]]) |->
                     write_uint32(index.postings[order[k]][i])])])

-----------------------------------------------------------------------------
(* lab4_bool/builder.cpp, the bsearch program: the loader *)

\* An std::ifstream over the bytes data is [pos, fail]: the read position and
\* whether a read has failed.  A read on a failed stream stores nothing.
OpenStream == [pos |-> 0, fail |-> FALSE]

\* in.read(buf, n): the bytes stored at the front of buf, and the stream after.
\* Fewer than n bytes left: they are stored and the stream fails.
stream_read(data, st, n) ==
  LET left == Len(data) - st.pos
      k == IF st.fail THEN 0 ELSE IF left < n THEN left ELSE n
  IN [got |-> Substr(data, st.pos, k),
      st |-> [pos |-> st.pos + k, fail |-> st.fail \/ k < n]]

\* a value that no allocation of the loader survives (TLC's largest integer)
HugeU32 == 127 * 16777216 + 16777215

\* the uint32_t stored in four little-endian bytes; from 2^31 on, HugeU32
decode_uint32(b) ==
  IF b[4] >= 128 THEN HugeU32
  ELSE b[1] + 256 * b[2] + 65536 * b[3] + 16777216 * b[4]

\* read_uint32: v is not initialized, so after a short read its value is the
\* indeterminate garbage
read_uint32(data, st, garbage) ==
  LET r == stream_read(data, st, 4)
  IN [v |-> IF Len(r.got) = 4 THEN decode_uint32(r.got) ELSE garbage, st |-> r.st]

\* read_string: std::string s(len, '\0') throws for a len no allocation
\* survives; a short read leaves the rest of s zero
read_string(data, st, garbage) ==
  LET len == read_uint32(data, st, garbage) IN
    IF len.v > MaxAlloc THEN [throw |-> TRUE, s |-> <<>>, st |-> len.st]
    ELSE LET r == stream_read(data, len.st, len.v)
         IN [throw |-> FALSE,
             s |-> r.got \o [i \in 1..(len.v - Len(r.got)) |-> 0],
             st |-> r.st]

RECURSIVE load_docs(_, _, _, _, _)
\* for (i < doc_count) idx.docs.push_back(read_string(in))
load_docs(data, st, n, garbage, docs) ==
  IF n = 0 THEN [throw |-> FALSE, docs |-> docs, st |-> st]
  ELSE LET s == read_string(data, st, garbage) IN
    IF s.throw THEN [throw |-> TRUE, docs |-> docs, st |-> s.st]
    ELSE load_docs(data, s.st, n - 1, garbage, Append(docs, s.s))

\* std::vector<uint32_t> plist(len); in.read(plist.data(), len * 4)
read_plist(data, st, len) ==
  LET r == stream_read(data, st, 4 * len)
      buf == r.got \o [i \in 1..(4 * len - Len(r.got)) |-> 0]
  IN [plist |-> [i \in 1..len |-> decode_uint32(SubSeq(buf, 4 * i - 3, 4 * i))],
      st |-> r.st]

RECURSIVE load_terms(_, _, _, _, _)
\* for (t < term_count) { read_string; read_uint32; plist; postings.emplace }
load_terms(data, st, n, garbage, postings) ==
  IF n = 0 THEN [throw |-> FALSE, postings |-> postings]
  ELSE LET term == read_string(data, st, garbage) IN
    IF term.throw THEN [throw |-> TRUE, postings |-> postings]
    ELSE LET len == read_uint32(data, term.st, garbage) IN
      IF len.v > MaxAlloc THEN [throw |-> TRUE, postings |-> postings]
      ELSE LET p == read_plist(data, len.st, len.v) IN
        load_terms(data, p.st, n - 1, garbage,
          IF term.s \in DOMAIN postings THEN postings   \* emplace keeps the first
          ELSE [t \in DOMAIN postings \cup {term.s} |->
                  IF t = term.s THEN p.plist ELSE postings[t]])

\* load_index on a file holding the bytes data.  char magic[5] is not
\* initialized: after a short read its tail is indeterminate, and magic_luck
\* says whether that tail happens to spell the rest of the magic.
load_index(data, garbage, magic_luck) ==
  LET m == stream_read(data, OpenStream, 5)
      magic_ok == IF Len(m.got) = 5 THEN m.got = BIDX1
                  ELSE m.got = SubSeq(BIDX1, 1, Len(m.got)) /\ magic_luck
      failed(what) == [outcome |-> what, idx |-> EmptyIndex]
  IN IF ~magic_ok THEN failed("bad index file")
     ELSE LET doc_count == read_uint32(data, m.st, garbage)
              term_count == read_uint32(data, doc_count.st, garbage)
          IN IF doc_count.v > MaxAlloc THEN failed("bad_alloc")   \* docs.reserve
             ELSE LET d == load_docs(data, term_count.st, doc_count.v, garbage, <<>>) IN
               IF d.throw THEN failed("bad_alloc")
               ELSE LET t == load_terms(data, d.st, term_count.v, garbage,
                                        EmptyIndex.postings) IN
                 IF t.throw THEN failed("bad_alloc")
                 ELSE [outcome |-> "ok", idx |-> [docs |-> d.docs, postings |-> t.postings]]

-----------------------------------------------------------------------------
(* lab4_bool/builder.cpp, the bsearch program: the query engine *)

RECURSIVE set_and_from(_, _, _, _)
set_and_from(a, b, i, j) ==
  IF i < Len(a) /\ j < Len(b)
  THEN IF At(a, i) = At(b, j) THEN <<At(a, i)>> \o set_and_from(a, b, i + 1, j + 1)
       ELSE IF At(a, i) < At(b, j) THEN set_and_from(a, b, i + 1, j)
       ELSE set_and_from(a, b, i, j + 1)
  ELSE <<>>

RECURSIVE set_and_keep_smaller(_, _, _, _)
set_and_keep_smaller(a, b, i, j) ==
  IF i < Len(a) /\ j < Len(b)
  THEN IF At(a, i) <= At(b, j)
       THEN <<At(a, i)>> \o set_and_keep_smaller(a, b, i + 1, j)
       ELSE set_and_keep_smaller(a, b, i, j + 1)
  ELSE <<>>

set_and_wrong(a, b) == set_and_keep_smaller(a, b, 0, 0)

set_and(a, b) == set_and_from(a, b, 0, 0)

RECURSIVE set_or_from(_, _, _, _, _)
set_or_from(a, b, i, j, out) ==
  IF i < Len(a) \/ j < Len(b)
  THEN LET left == j >= Len(b) \/ (i < Len(a) /\ At(a, i) <= At(b, j))
           v == IF left THEN At(a, i) ELSE At(b, j)
           out2 == IF out = <<>> \/ out[Len(out)] # v THEN Append(out, v) ELSE out
       IN IF left THEN set_or_from(a, b, i + 1, j, out2)
          ELSE set_or_from(a, b, i, j + 1, out2)
  ELSE out

set_or(a, b) == set_or_from(a, b, 0, 0, <<>>)

RECURSIVE set_not_from(_, _, _, _, _)
set_not_from(universe, b, i, j, out) ==
  IF i < Len(universe)
  THEN IF j >= Len(b) THEN out \o SubSeq(universe, i + 1, Len(universe))
       ELSE IF At(universe, i) = At(b, j) THEN set_not_from(universe, b, i + 1, j + 1, out)
       ELSE IF At(universe, i) < At(b, j)
         THEN set_not_from(universe, b, i + 1, j, Append(out, At(universe, i)))
       ELSE set_not_from(universe, b, i, j + 1, out)
  ELSE out

set_not(universe, b) == set_not_from(universe, b, 0, 0, <<>>)

\* struct Token {Op type; std::string term;}
Tok(type, term) == [type |-> type, term |-> term]

kw_and == Str(<<"a", "n", "d">>)
kw_or == Str(<<"o", "r">>)
kw_not == Str(<<"n", "o", "t">>)

parse_query(raw, use_stem) ==
  LET words == tokenize(raw, IndexConfig)
  IN [k \in 1..Len(words) |->
        LET w == words[k] IN
          IF w = kw_and THEN Tok("AND", <<>>)
          ELSE IF w = kw_or THEN Tok("OR", <<>>)
          ELSE IF w = kw_not THEN Tok("NOT", <<>>)
          ELSE Tok("TERM", IF use_stem THEN stem_token(w) ELSE w)]

precedence_and_as_or(op) == IF op = "NOT" THEN 2 ELSE 0

precedence(op) == IF op = "NOT" THEN 2 ELSE IF op = "AND" THEN 1 ELSE 0

RECURSIVE pop_ops(_, _, _)
\* while (!ops.empty() && precedence(ops.top()) >= precedence(t.type)):
\* [ops, output] after the loop
pop_ops(ops, output, type) ==
  IF ops # <<>> /\ precedence(ops[Len(ops)]) >= precedence(type)
  THEN pop_ops(SubSeq(ops, 1, Len(ops) - 1),
               Append(output, Tok(ops[Len(ops)], <<>>)), type)
  ELSE [ops |-> ops, output |-> output]

RECURSIVE drain_ops(_, _)
\* while (!ops.empty()) { output.push_back({ops.top(), {}}); ops.pop(); }
drain_ops(ops, output) ==
  IF ops = <<>> THEN output
  ELSE drain_ops(SubSeq(ops, 1, Len(ops) - 1), Append(output, Tok(ops[Len(ops)], <<>>)))

RECURSIVE to_postfix_from(_, _, _)
to_postfix_from(infix, ops, output) ==
  IF infix = <<>> THEN drain_ops(ops, output)
  ELSE LET t == Head(infix) IN
    IF t.type = "TERM" THEN to_postfix_from(Tail(infix), ops, Append(output, t))
    ELSE LET r == pop_ops(ops, output, t.type)
         IN to_postfix_from(Tail(infix), Append(r.ops, t.type), r.output)

to_postfix(infix) == to_postfix_from(infix, <<>>, <<>>)

postings_for_absent_zero(index, term) ==
  IF term \notin DOMAIN index.postings THEN <<0>> ELSE index.postings[term]

postings_for(index, term) ==
  IF term \notin DOMAIN index.postings THEN <<>> ELSE index.postings[term]

\* std::vector<uint32_t> universe(idx.docs.size()); universe[i] = i
universe_of(index) == [i \in 1..Len(index.docs) |-> i - 1]

RECURSIVE evaluate_from(_, _, _)
\* the loop of evaluate over the rest of postfix.  stack.back() and
\* stack.pop_back() on an empty vector are undefined behaviour: ub.
evaluate_from(index, postfix, stack) ==
  IF postfix = <<>>
  THEN [ub |-> FALSE, value |-> IF stack = <<>> THEN <<>> ELSE stack[Len(stack)],
        depth |-> Len(stack)]
  ELSE LET t == Head(postfix)
           n == Len(stack)
           undefined == [ub |-> TRUE, value |-> <<>>, depth |-> n]
       IN IF t.type = "TERM"
          THEN evaluate_from(index, Tail(postfix),
                             Append(stack, postings_for(index, t.term)))
          ELSE IF t.type = "NOT"
          THEN IF n < 1 THEN undefined
               ELSE evaluate_from(index, Tail(postfix),
                      Append(SubSeq(stack, 1, n - 1),
                             set_not(universe_of(index), stack[n])))
          ELSE IF n < 2 THEN undefined
               ELSE LET b == stack[n]
                        a == stack[n - 1]
                    IN evaluate_from(index, Tail(postfix),
                         Append(SubSeq(stack, 1, n - 2),
                                IF t.type = "AND" THEN set_and(a, b) ELSE set_or(a, b)))

\* evaluate: [ub, value, depth]: whether the run is undefined, the vector
\* returned, and the stack's size when the loop ends
evaluate(index, postfix) == evaluate_from(index, postfix, <<>>)

\* the lines main prints after "Found N docs": idx.docs[doc_id] for doc_id < size
print_docs(index, res) ==
  LET known == {k \in 1..Len(res) : res[k] < Len(index.docs)}
      pick[k \in 0..Len(res)] ==
        IF k = 0 THEN <<>>
        ELSE IF k \in known THEN Append(pick[k - 1], index.docs[res[k] + 1])
        ELSE pick[k - 1]
  IN pick[Len(res)]

-----------------------------------------------------------------------------
(* Inputs: corpus lines, index files, query lines, tokenizer texts *)

\* a record: {"id":"d1","text":"Cats run fast"}
L_cats ==
  Str(<<"{", "\"", "i", "d", "\"", ":", "\"", "d", "1", "\"", ",", "\"",
        "t", "e", "x", "t", "\"", ":", "\"", "C", "a", "t", "s", " ", "r",
        "u", "n", " ", "f", "a", "s", "t", "\"", "}">>)

\* a record whose text repeats a term: {"id":"d2","text":"run cats RUN"}
L_runs ==
  Str(<<"{", "\"", "i", "d", "\"", ":", "\"", "d", "2", "\"", ",", "\"",
        "t", "e", "x", "t", "\"", ":", "\"", "r", "u", "n", " ", "c", "a",
        "t", "s", " ", "R", "U", "N", "\"", "}">>)

\* no id field: {"text":"fast run"}
L_noid ==
  Str(<<"{", "\"", "t", "e", "x", "t", "\"", ":", "\"", "f", "a", "s", "t",
        " ", "r", "u", "n", "\"", "}">>)

\* no text field: {"id":"d3"}
L_notext ==
  Str(<<"{", "\"", "i", "d", "\"", ":", "\"", "d", "3", "\"", "}">>)

\* escapes in both values, blanks after the colons: {"id": "d\"4", "text": "fast\nFAST"}
L_escape ==
  Str(<<"{", "\"", "i", "d", "\"", ":", " ", "\"", "d", "\\", "\"", "4",
        "\"", ",", " ", "\"", "t", "e", "x", "t", "\"", ":", " ", "\"",
        "f", "a", "s", "t", "\\", "n", "F", "A", "S", "T", "\"", "}">>)

\* the text value is not closed: {"id":"d5","text":"run
L_unterminated ==
  Str(<<"{", "\"", "i", "d", "\"", ":", "\"", "d", "5", "\"", ",", "\"",
        "t", "e", "x", "t", "\"", ":", "\"", "r", "u", "n">>)

\* a text without a term of two characters: {"id":"d6","text":"a - !"}
L_notokens ==
  Str(<<"{", "\"", "i", "d", "\"", ":", "\"", "d", "6", "\"", ",", "\"",
        "t", "e", "x", "t", "\"", ":", "\"", "a", " ", "-", " ", "!", "\"",
        "}">>)

\* the second record of the end-to-end scenario: {"id":"d2","text":"Dogs run slow"}
L_dogs ==
  Str(<<"{", "\"", "i", "d", "\"", ":", "\"", "d", "2", "\"", ",", "\"",
        "t", "e", "x", "t", "\"", ":", "\"", "D", "o", "g", "s", " ", "r",
        "u", "n", " ", "s", "l", "o", "w", "\"", "}">>)

\* a third record: {"id":"d3","text":"fast dogs"}
L_third ==
  Str(<<"{", "\"", "i", "d", "\"", ":", "\"", "d", "3", "\"", ",", "\"",
        "t", "e", "x", "t", "\"", ":", "\"", "f", "a", "s", "t", " ", "d",
        "o", "g", "s", "\"", "}">>)


\* the lines a corpus file of the builder run is made of
CorpusLines ==
  {<<>>, L_cats, L_runs, L_noid, L_notext, L_escape, L_unterminated, L_notokens}

RECURSIVE read_lines(_, _, _)
\* the whole while (std::getline(in, line)) loop over the lines of a file
read_lines(st, lines, use_stem) ==
  IF lines = <<>> THEN st
  ELSE read_lines(read_line(st, Head(lines), use_stem), Tail(lines), use_stem)

\* the index main holds when it calls save_index
build(lines, use_stem) ==
  finalize(read_lines([idx |-> EmptyIndex, doc_id |-> 0], lines, use_stem).idx)

\* the files the builder may write for an index
saved_files(index) ==
  {save_index(index, o) : o \in IterationOrders(DOMAIN index.postings)}

\* the corpus of the end-to-end scenario, one of three documents, an empty one
E2ECorpus == <<L_cats, L_dogs>>
ThreeDocCorpus == <<L_cats, L_dogs, L_third>>

\* the corpora and stemming flags of the indexes a query session runs on
SearchSetups ==
  {[corpus |-> <<>>, use_stem |-> TRUE],
   [corpus |-> E2ECorpus, use_stem |-> TRUE],
   [corpus |-> ThreeDocCorpus, use_stem |-> TRUE],
   [corpus |-> ThreeDocCorpus, use_stem |-> FALSE]}

\* the index file a query session starts from: the loader's result does not
\* depend on the order of the terms in the file, so one order stands for all
search_file(c, use_stem) == CHOOSE f \in saved_files(build(c, use_stem)) : TRUE

\* the index files cut short or given another magic
CodecBaseFiles == saved_files(build(<<L_cats, L_runs>>, TRUE))
CodecStreams ==
  UNION {{SubSeq(f, 1, n) : n \in 0..Len(f)} : f \in CodecBaseFiles}
  \cup {[f EXCEPT ![k] = 88] : f \in CodecBaseFiles, k \in 1..5}

\* the values an uninitialized uint32_t is given
GarbageU32 == {0, 2, HugeU32}

\* the vectors a run of evaluate with undefined behaviour may return
UndefinedResults == {<<>>, <<HugeU32>>}

w_run == Str(<<"r", "u", "n">>)
w_fast == Str(<<"f", "a", "s", "t">>)
w_dogs == Str(<<"d", "o", "g", "s">>)
w_AND == Str(<<"A", "N", "D">>)
w_OR == Str(<<"O", "R">>)
w_NOT == Str(<<"N", "O", "T">>)
\* run AND fast
Q_run_and_fast ==
  Str(<<"r", "u", "n", " ", "A", "N", "D", " ", "f", "a", "s", "t">>)

\* run AND NOT fast
Q_run_and_not_fast ==
  Str(<<"r", "u", "n", " ", "A", "N", "D", " ", "N", "O", "T", " ", "f",
        "a", "s", "t">>)

\* missingterm
Q_missingterm ==
  Str(<<"m", "i", "s", "s", "i", "n", "g", "t", "e", "r", "m">>)

\* run OR fast AND NOT dogs
Q_or_and_not ==
  Str(<<"r", "u", "n", " ", "O", "R", " ", "f", "a", "s", "t", " ", "A",
        "N", "D", " ", "N", "O", "T", " ", "d", "o", "g", "s">>)

\* NOT NOT run
Q_not_not_run ==
  Str(<<"N", "O", "T", " ", "N", "O", "T", " ", "r", "u", "n">>)

\* run AND NOT NOT fast
Q_and_not_not ==
  Str(<<"r", "u", "n", " ", "A", "N", "D", " ", "N", "O", "T", " ", "N",
        "O", "T", " ", "f", "a", "s", "t">>)

\* a
Q_short ==
  Str(<<"a">>)

\* !?
Q_punct ==
  Str(<<"!", "?">>)

\* RUN and Fast
Q_mixed_case ==
  Str(<<"R", "U", "N", " ", "a", "n", "d", " ", "F", "a", "s", "t">>)

\* AND
Q_and ==
  Str(<<"A", "N", "D">>)

\* run
Q_run ==
  Str(<<"r", "u", "n">>)

\* run AND
Q_run_and ==
  Str(<<"r", "u", "n", " ", "A", "N", "D">>)

\* OR fast
Q_or_fast ==
  Str(<<"O", "R", " ", "f", "a", "s", "t">>)

\* NOT
Q_not ==
  Str(<<"N", "O", "T">>)

\* run fast
Q_two_terms ==
  Str(<<"r", "u", "n", " ", "f", "a", "s", "t">>)

\* d1
s_d1 ==
  Str(<<"d", "1">>)

\* d2
s_d2 ==
  Str(<<"d", "2">>)

\* d3
s_d3 ==
  Str(<<"d", "3">>)

\* d"4
s_d_quote_4 ==
  Str(<<"d", "\"", "4">>)

\* d6
s_d6 ==
  Str(<<"d", "6">>)

\* cat
s_cat ==
  Str(<<"c", "a", "t">>)

\* cats
s_cats ==
  Str(<<"c", "a", "t", "s">>)


\* the words of the generated query lines
QueryWords == {w_run, w_fast, w_AND, w_OR, w_NOT}

\* the words of ws with one blank between neighbours
join_words(ws) ==
  Concat([k \in 1..Len(ws) |-> IF k = 1 THEN ws[k] ELSE <<32>> \o ws[k]])

GeneratedQueries ==
  {join_words(ws) : ws \in UNION {[1..n -> QueryWords] : n \in 0..MaxQueryWords}}

ExampleQueries ==
  {Q_run_and_fast, Q_run_and_not_fast, Q_missingterm, Q_or_and_not,
   Q_not_not_run, Q_and_not_not, Q_short, Q_punct, Q_mixed_case,
   Q_run_and, Q_or_fast, Q_two_terms, Q_not, join_words(<<w_dogs>>)}

\* the lines typed into a query session
Queries == GeneratedQueries \cup ExampleQueries

\* A session is any run of these lines, then at most one line of Queries.
ProbeQueries == {Q_run, Q_and}

\* the bytes of the tokenizer's input texts: a A - ' blank, the Cyrillic lead
\* 0xD0 and the trails 0x90 and 0xA0 of two capital letters
TokBytes == {97, 65, 45, 39, 32, 208, 144, 160}

TokTexts == UNION {[1..n -> TokBytes] : n \in 0..MaxTextLen}

TokConfigs ==
  [lowercase : BOOLEAN, keep_dashes : BOOLEAN, keep_apostrophes : BOOLEAN,
   min_token_length : {1, 2, 3}]

\* the characters a term given to the stemmer starts with: r, n and the
\* Cyrillic letter be (U+0431)
StemChars == {<<114>>, <<110>>, <<208, 177>>}

\* up to MaxStemChars characters
StemPrefixes ==
  {Concat(cs) : cs \in UNION {[1..n -> StemChars] : n \in 0..MaxStemChars}}

\* nothing, or an entry of either table
StemEndings ==
  {<<>>} \cup SetOf(ru_suffixes) \cup SetOf(en_suffixes)

\* the terms of the worked examples: a, running
t_a == Str(<<"a">>)
t_running == Str(<<"r", "u", "n", "n", "i", "n", "g">>)

\* the terms given to stem_token
StemTerms ==
  {p \o e : p \in StemPrefixes, e \in StemEndings} \cup {t_a, t_running}

-----------------------------------------------------------------------------
(* The programs as state machines *)

NoFile == [exists |-> FALSE, data |-> <<>>]
NotLoaded == [outcome |-> "none", idx |-> EmptyIndex]

TkIdle == tk_pc = "off" /\ tk_cfg = DefaultConfig /\ tk_text = <<>> /\ tk_tokens = <<>>
StIdle == st_pc = "off" /\ st_term = <<>> /\ st_out = <<>>
BIdle == /\ b_pc = "off" /\ b_use_stem = TRUE /\ corpus = <<>>
         /\ idx = EmptyIndex /\ doc_id = 0
SIdle == /\ s_pc = "off" /\ s_use_stem = TRUE /\ loaded = NotLoaded
         /\ query = <<>> /\ result = <<>> /\ printed = <<>> /\ outcome = "none"
         /\ asked = 0
SStart == /\ s_pc = "start" /\ loaded = NotLoaded
          /\ query = <<>> /\ result = <<>> /\ printed = <<>> /\ outcome = "none"
          /\ asked = 0

(* tokenizer main: one text, one configuration *)
TkInit ==
  /\ tk_pc = "ready" /\ tk_cfg \in TokConfigs /\ tk_text \in TokTexts
  /\ tk_tokens = <<>>
  /\ StIdle /\ BIdle /\ SIdle /\ file = NoFile

\* tokenizer.tokenize(text)
TkTokenize ==
  /\ tk_pc = "ready"
  /\ tk_tokens' = tokenize(tk_text, tk_cfg)
  /\ tk_pc' = "done"
  /\ UNCHANGED << tk_cfg, tk_text, st_vars, b_vars, file, s_vars >>

(* a call of stem_token, as add_postings and parse_query make it *)
StInit ==
  /\ st_pc = "ready" /\ st_term \in StemTerms /\ st_out = <<>>
  /\ TkIdle /\ BIdle /\ SIdle /\ file = NoFile

\* std::string term = stem_token(tok)
StStem ==
  /\ st_pc = "ready"
  /\ st_out' = stem_token(st_term)
  /\ st_pc' = "done"
  /\ UNCHANGED << st_term, tk_vars, b_vars, file, s_vars >>

(* builder main *)
BInit ==
  /\ b_pc = "reading" /\ b_use_stem \in BOOLEAN /\ corpus = <<>>
  /\ idx = EmptyIndex /\ doc_id = 0 /\ file = NoFile
  /\ TkIdle /\ StIdle /\ SStart /\ s_use_stem = TRUE

\* std::getline reads a line: one iteration of the loop
BReadLine ==
  /\ b_pc = "reading" /\ Len(corpus) < MaxLines
  /\ \E line \in CorpusLines :
       LET st == read_line([idx |-> idx, doc_id |-> doc_id], line, b_use_stem)
       IN /\ idx' = st.idx
          /\ doc_id' = st.doc_id
          /\ corpus' = Append(corpus, line)
  /\ UNCHANGED << b_pc, b_use_stem, file, tk_vars, st_vars, s_vars >>

\* std::getline fails at the end of the file: finalization and save_index
BFinish ==
  /\ b_pc = "reading"
  /\ idx' = finalize(idx)
  /\ \E order \in IterationOrders(DOMAIN idx.postings) :
       file' = [exists |-> TRUE, data |-> save_index(finalize(idx), order)]
  /\ b_pc' = "saved"
  /\ UNCHANGED << b_use_stem, corpus, doc_id, tk_vars, st_vars, s_vars >>

(* bsearch main *)
\* Index idx = load_index(index_path), the file being there
SStartup ==
  /\ s_pc = "start" /\ file.exists
  /\ \E garbage \in GarbageU32, magic_luck \in BOOLEAN :
       loaded' = load_index(file.data, garbage, magic_luck)
  /\ s_pc' = IF loaded'.outcome = "ok" THEN "serving" ELSE "failed"
  /\ UNCHANGED << s_use_stem, query, result, printed, outcome, asked, tk_vars, st_vars, b_vars, file >>

\* what one iteration of the query loop computes for the line raw
answer(index, raw, use_stem) ==
  LET infix == parse_query(raw, use_stem)
      postfix == to_postfix(infix)
      r == evaluate(index, postfix)
  IN [ub |-> r.ub, result |-> r.value, printed |-> print_docs(index, r.value)]

\* the lines the session may read next: any query as its first and second
\* line, a probe from then on
NextQueries == IF asked <= 1 THEN Queries ELSE ProbeQueries

\* the index after a lookup that goes through postings[term]: every term of
\* the query is a key
with_query_terms(index, raw, use_stem) ==
  LET infix == parse_query(raw, use_stem)
      terms == {infix[k].term : k \in {n \in 1..Len(infix) : infix[n].type = "TERM"}}
  IN [index EXCEPT !.postings =
        [t \in DOMAIN index.postings \cup terms |->
           IF t \in DOMAIN index.postings THEN index.postings[t] ELSE <<>>]]

\* one iteration of the query loop whose lookups insert the absent terms
SServe_inserting ==
  /\ s_pc = "serving"
  /\ outcome = "none" \/ query \in ProbeQueries
  /\ \E q \in NextQueries :
       LET a == answer(loaded.idx, q, s_use_stem) IN
         /\ query' = q
         /\ result' = a.result /\ printed' = a.printed
         /\ outcome' = IF a.ub THEN "undefined" ELSE "ok"
         /\ s_pc' = IF a.ub THEN "crashed" ELSE "serving"
         /\ loaded' = [loaded EXCEPT !.idx = with_query_terms(loaded.idx, q, s_use_stem)]
  /\ asked' = IF asked < 2 THEN asked + 1 ELSE asked
  /\ UNCHANGED << s_use_stem, tk_vars, st_vars, b_vars, file >>

\* one iteration of while (std::getline(std::cin, query))
SServe ==
  /\ s_pc = "serving"
  /\ outcome = "none" \/ query \in ProbeQueries
  /\ \E q \in NextQueries :
       LET a == answer(loaded.idx, q, s_use_stem) IN
         /\ query' = q
         /\ \/ /\ ~a.ub
               /\ result' = a.result /\ printed' = a.printed
               /\ outcome' = "ok" /\ s_pc' = "serving"
            \/ /\ a.ub          \* the undefined run ends the process
               /\ result' = <<>> /\ printed' = <<>>
               /\ outcome' = "undefined" /\ s_pc' = "crashed"
            \/ /\ a.ub          \* the undefined run returns some vector
               /\ \E junk \in UndefinedResults :
                    result' = junk /\ printed' = print_docs(loaded.idx, junk)
               /\ outcome' = "undefined" /\ s_pc' = "serving"
  /\ asked' = IF asked < 2 THEN asked + 1 ELSE asked   \* counted up to two
  /\ UNCHANGED << s_use_stem, loaded, tk_vars, st_vars, b_vars, file >>

\* std::getline fails at the end of the input: return 0
SEof ==
  /\ s_pc = "serving"
  /\ s_pc' = "exited"
  /\ UNCHANGED << s_use_stem, loaded, query, result, printed, outcome,
                  asked, tk_vars, st_vars, b_vars, file >>

\* bsearch is given the stemming flag the index was built with
SInit ==
  /\ SStart
  /\ \E s \in SearchSetups :
       /\ s_use_stem = s.use_stem
       /\ file = [exists |-> TRUE, data |-> search_file(s.corpus, s.use_stem)]
  /\ TkIdle /\ StIdle /\ BIdle

CInit ==
  /\ SStart /\ s_use_stem = TRUE
  /\ \E f \in CodecStreams : file = [exists |-> TRUE, data |-> f]
  /\ TkIdle /\ StIdle /\ BIdle

\* the tokenizer program
SpecTokenizer == TkInit /\ [][TkTokenize]_vars

\* the stemmer
SpecStemmer == StInit /\ [][StStem]_vars

\* the builder run, and bsearch started on the file it leaves
BNext == BReadLine \/ BFinish \/ SStartup
SpecBuilder == BInit /\ [][BNext]_vars

\* bsearch started on a damaged index file
SpecCodec == CInit /\ [][SStartup]_vars

\* a bsearch session on an index file the builder wrote
SNext == SStartup \/ SServe \/ SEof
SpecSearch == SInit /\ [][SNext]_vars

-----------------------------------------------------------------------------
(* The claims *)

\* v is sorted ascending and holds no value twice
StrictlyIncreasing(v) == \A i \in 1..(Len(v) - 1) : v[i] < v[i + 1]

\* every posting list of index is strictly increasing and within the doc table
PostingsWellFormed(index) ==
  \A t \in DOMAIN index.postings :
    /\ StrictlyIncreasing(index.postings[t])
    /\ \A i \in 1..Len(index.postings[t]) : index.postings[t][i] < Len(index.docs)

\* C1: in the index the builder finalizes and saves, whatever the corpus
\* lines and the stemming flag, every posting list is strictly increasing
\* and every id in it is smaller than the document count; the index read
\* back from the saved file is so too.
C1_PostingsStrictlyIncreasing ==
  /\ b_pc = "saved" => PostingsWellFormed(idx)
  /\ s_pc = "serving" => PostingsWellFormed(loaded.idx)

\* C1 witness: a saved index of two documents in which a term that the
\* second document repeats has the posting list <<0, 1>>.
C1_Witness ==
  /\ b_pc = "saved" /\ corpus = <<L_cats, L_runs>>
  /\ idx.postings[w_run] = <<0, 1>>

\* C2: load_index applied to the bytes save_index wrote, in whatever order
\* it wrote the terms, yields the builder's index: the same document table
\* in the same order, the same terms, the same posting list for each.
C2_LoadAfterSave ==
  (b_pc = "saved" /\ s_pc # "start") =>
    /\ loaded.outcome = "ok"
    /\ loaded.idx.docs = idx.docs
    /\ DOMAIN loaded.idx.postings = DOMAIN idx.postings
    /\ \A t \in DOMAIN idx.postings : loaded.idx.postings[t] = idx.postings[t]

\* C2 witness: an index of two documents and three terms was saved and
\* loaded.
C2_Witness ==
  /\ b_pc = "saved" /\ s_pc = "serving"
  /\ Len(loaded.idx.docs) = 2 /\ Cardinality(DOMAIN loaded.idx.postings) = 3

\* the query of the state as parse_query reads it
Infix == parse_query(query, s_use_stem)

\* the types of a token sequence
Types(tokens) == [k \in 1..Len(tokens) |-> tokens[k].type]

RECURSIVE OperandsJoined(_, _)
\* from position i on, types is: operand (AND|OR operand)*, an operand being
\* a TERM or NOT TERM
OperandsJoined(types, i) ==
  LET j == IF i <= Len(types) /\ types[i] = "NOT" THEN i + 1 ELSE i IN
    /\ j <= Len(types) /\ types[j] = "TERM"
    /\ \/ j = Len(types)
       \/ /\ j + 1 <= Len(types) /\ types[j + 1] \in {"AND", "OR"}
          /\ OperandsJoined(types, j + 2)

\* terms, each optionally preceded by one NOT, joined by AND/OR
WellFormed(tokens) == OperandsJoined(Types(tokens), 1)

\* the documents of index
Universe(index) == 0..(Len(index.docs) - 1)

\* the documents holding term
DocsOf(index, term) ==
  IF term \in DOMAIN index.postings THEN SetOf(index.postings[term]) ELSE {}

RECURSIVE Meaning(_, _, _, _, _)
\* the set a well-formed query denotes under NOT > AND > OR: from position
\* i on, with the product of the current AND group and the union of the
\* groups before it
Meaning(index, tokens, i, product, sum) ==
  LET negated == tokens[i].type = "NOT"
      j == IF negated THEN i + 1 ELSE i
      operand == IF negated THEN Universe(index) \ DocsOf(index, tokens[j].term)
                 ELSE DocsOf(index, tokens[j].term)
      group == product \cap operand
  IN IF j = Len(tokens) THEN sum \cup group
     ELSE IF tokens[j + 1].type = "AND"
       THEN Meaning(index, tokens, j + 2, group, sum)
     ELSE Meaning(index, tokens, j + 2, Universe(index), sum \cup group)

\* the index of the end-to-end scenario, stemming on
E2EIndex == build(E2ECorpus, TRUE)

\* C3: for every query in which terms, each optionally preceded by one NOT,
\* are joined by AND/OR, the session returns exactly the set that NOT > AND >
\* OR gives it, as a strictly increasing vector; and on the end-to-end corpus
\* 'run AND fast' prints d1, 'run AND NOT fast' prints d2, 'missingterm'
\* prints nothing.
C3_PrecedenceSemantics ==
  /\ (outcome # "none" /\ WellFormed(Infix)) =>
       /\ outcome = "ok"
       /\ StrictlyIncreasing(result)
       /\ SetOf(result) =
            Meaning(loaded.idx, Infix, 1, Universe(loaded.idx), {})
  /\ (outcome # "none" /\ loaded.idx = E2EIndex /\ s_use_stem) =>
       /\ query = Q_run_and_fast => printed = <<s_d1>>
       /\ query = Q_run_and_not_fast => printed = <<s_d2>>
       /\ query = Q_missingterm => outcome = "ok" /\ printed = <<>>

\* C3 witness: 'run OR fast AND NOT dogs' answered on the index of three
\* documents with documents 0 and 1, which is run + (fast * not dogs) and
\* differs from (run + fast) * not dogs.
C3_Witness ==
  /\ outcome = "ok" /\ query = Q_or_and_not
  /\ Len(loaded.idx.docs) = 3 /\ s_use_stem
  /\ result = <<0, 1>> /\ printed = <<s_d1, s_d2>>

\* the positions of tokens where NOT NOT X starts, X a term of index
DoubleNegations(index, tokens) ==
  {i \in 1..(Len(tokens) - 2) :
     /\ tokens[i].type = "NOT" /\ tokens[i + 1].type = "NOT"
     /\ tokens[i + 2].type = "TERM" /\ tokens[i + 2].term \in DOMAIN index.postings}

\* tokens without the two tokens at positions i and i + 1
WithoutPair(tokens, i) ==
  SubSeq(tokens, 1, i - 1) \o SubSeq(tokens, i + 2, Len(tokens))

\* C4: a query holding NOT NOT X, X a term of the index, returns what the
\* same query with X in place of NOT NOT X returns.
C4_DoubleNegation ==
  outcome # "none" =>
    \A i \in DoubleNegations(loaded.idx, Infix) :
      LET plain == evaluate(loaded.idx, to_postfix(WithoutPair(Infix, i)))
      IN ~plain.ub => (outcome = "ok" /\ result = plain.value)

\* the vector the query of the single term returns
TermResult(term) == evaluate(loaded.idx, to_postfix(<<Tok("TERM", term)>>)).value

\* C5: the result of 'A AND B' is a subset of the results of 'A' and of 'B',
\* the result of 'A OR B' a superset of both, for terms present or absent.
C5_AndSubsetOrSuperset ==
  (outcome # "none" /\ Types(Infix) \in {<<"TERM", "AND", "TERM">>, <<"TERM", "OR", "TERM">>}) =>
    LET A == SetOf(TermResult(Infix[1].term))
        B == SetOf(TermResult(Infix[3].term))
    IN /\ outcome = "ok"
       /\ Infix[2].type = "AND" => SetOf(result) \subseteq A /\ SetOf(result) \subseteq B
       /\ Infix[2].type = "OR" => A \subseteq SetOf(result) /\ B \subseteq SetOf(result)

\* C5 witness: 'run AND fast' on the index of three documents, where run is
\* in 0 and 1 and fast in 0 and 2, returned document 0 alone.
C5_Witness ==
  /\ outcome = "ok" /\ query = Q_run_and_fast
  /\ Len(loaded.idx.docs) = 3
  /\ TermResult(w_run) = <<0, 1>> /\ TermResult(w_fast) = <<0, 2>>
  /\ result = <<0>>

RECURSIVE Underflows(_, _)
\* an operator of the postfix types finds too few operands on a stack of
\* the given depth
Underflows(types, depth) ==
  IF types = <<>> THEN FALSE
  ELSE IF Head(types) = "TERM" THEN Underflows(Tail(types), depth + 1)
  ELSE IF Head(types) = "NOT" THEN depth < 1 \/ Underflows(Tail(types), depth)
  ELSE depth < 2 \/ Underflows(Tail(types), depth - 1)

\* C6: a query whose postfix form leaves an operator with too few operands
\* is answered with an explicit MalformedQuery outcome, and the session goes
\* on.
C6_MalformedQueryReported ==
  (outcome # "none" /\ Underflows(Types(to_postfix(Infix)), 0)) =>
    /\ outcome = "MalformedQuery"
    /\ s_pc = "serving"

\* the stream of the state is a proper prefix of an index file
Truncated ==
  \E f \in CodecBaseFiles :
    Len(file.data) < Len(f) /\ file.data = SubSeq(f, 1, Len(file.data))

\* the stream of the state does not start with the magic
WrongMagic == Len(file.data) < 5 \/ SubSeq(file.data, 1, 5) # BIDX1

\* C7: load_index fails with the bad-index-file error, and returns no index,
\* whenever the stream does not start with BIDX1 or ends early.
C7_DamagedFileRejected ==
  (s_pc # "start" /\ (WrongMagic \/ Truncated)) =>
    /\ loaded.outcome = "bad index file"
    /\ s_pc = "failed"

\* C8: a query that is one term absent from the index, and a query whose
\* postfix program is empty, get the empty result and no error, and the
\* session goes on.
C8_AbsentTermAndEmptyProgram ==
  (outcome # "none"
   /\ \/ to_postfix(Infix) = <<>>
      \/ /\ Types(Infix) = <<"TERM">>
         /\ Infix[1].term \notin DOMAIN loaded.idx.postings) =>
    /\ outcome = "ok" /\ s_pc \in {"serving", "exited"}
    /\ result = <<>> /\ printed = <<>>

\* C8 witness: 'missingterm' answered on an index that holds documents.
C8_Witness ==
  /\ outcome = "ok" /\ query = Q_missingterm /\ result = <<>>
  /\ Len(loaded.idx.docs) = 3

\* the lines of the corpus read so far from which both fields are extracted
Extractable(line) ==
  line # <<>> /\ extract_field(line, key_id).ok /\ extract_field(line, key_text).ok

\* the terms of the text of a line, as the builder indexes them
TermsOfLine(line, use_stem) ==
  LET tokens == tokenize(extract_field(line, key_text).out, IndexConfig)
  IN {IF use_stem THEN stem_token(tokens[k]) ELSE tokens[k] : k \in 1..Len(tokens)}

\* C9: the document table holds the decoded ids of the lines read so far
\* from which both fields are extracted, in input order; the k-th such line
\* has document id k (0-based): its terms, and no others, are posted under
\* k; a line that is empty or lacks a field adds nothing; the next id is the
\* size of the document table.
C9_DenseDocumentIds ==
  b_pc \in {"reading", "saved"} =>
    LET good == SelectSeq(corpus, Extractable) IN
      /\ doc_id = Len(idx.docs)
      /\ idx.docs = [k \in 1..Len(good) |-> extract_field(good[k], key_id).out]
      /\ DOMAIN idx.postings =
           UNION {TermsOfLine(good[k], b_use_stem) : k \in 1..Len(good)}
      /\ \A t \in DOMAIN idx.postings :
           SetOf(idx.postings[t]) =
             {k - 1 : k \in {n \in 1..Len(good) : t \in TermsOfLine(good[n], b_use_stem)}}

\* C9 witness: after a line without text, a record, an empty line and a
\* record with an escaped id, the table is d1, d"4 and the next id is 2.
C9_Witness ==
  /\ b_pc = "reading" /\ corpus = <<L_notext, L_cats, L_escape>>
  /\ idx.docs = <<s_d1, s_d_quote_4>> /\ doc_id = 2
  /\ idx.postings[w_fast] = <<0, 1>>

\* the count of UTF-8 codepoints: the bytes that continue no sequence
Codepoints(s) == Cardinality({i \in 1..Len(s) : s[i] < 128 \/ s[i] > 191})

\* an ASCII letter or digit, or a Cyrillic two-byte sequence, occurs in s
LetterContent(s) ==
  \E i \in 1..Len(s) :
    \/ s[i] \in (48..57) \cup (65..90) \cup (97..122)
    \/ s[i] \in {208, 209} /\ i < Len(s) /\ s[i + 1] \in 128..191

\* C10: every term tokenize returns is non-empty, has at least
\* min_token_length codepoints and letter content, and neither begins nor
\* ends with '-' or an apostrophe; a text without letter content, the empty
\* one included, yields no term.
C10_TermsValid ==
  tk_pc = "done" =>
    /\ \A k \in 1..Len(tk_tokens) :
         LET term == tk_tokens[k] IN
           /\ term # <<>>
           /\ Codepoints(term) >= tk_cfg.min_token_length
           /\ LetterContent(term)
           /\ term[1] \notin {45, 39} /\ term[Len(term)] \notin {45, 39}
    /\ ~LetterContent(tk_text) => tk_tokens = <<>>

\* C10 witness: -A'a- with lowercasing and a minimum of two gives the one
\* term a'a, the dashes trimmed and the apostrophe kept.
C10_Witness ==
  /\ tk_pc = "done" /\ tk_text = <<45, 65, 39, 97>>
  /\ tk_cfg.lowercase /\ tk_cfg.keep_apostrophes /\ tk_cfg.min_token_length = 2
  /\ tk_tokens = << <<97, 39, 97>> >>

\* the table stem_token selects for term
TableOf(term) ==
  IF \E i \in 1..Len(term) : term[i] >= 208 THEN ru_suffixes ELSE en_suffixes

\* term without its last n bytes
Remainder(term, n) == SubSeq(term, 1, Len(term) - n)

\* term ends with suf
EndsWith(term, suf) ==
  Len(suf) <= Len(term) /\ SubSeq(term, Len(term) - Len(suf) + 1, Len(term)) = suf

\* the entries of table that term ends with and whose removal leaves more
\* than one character
Qualifying(term, table) ==
  {k \in 1..Len(table) :
     /\ EndsWith(term, table[k])
     /\ Codepoints(Remainder(term, Len(table[k]))) > 1}

\* C11: stem_token returns a term of at most two bytes unchanged; a longer
\* term loses the first entry of its table, in declared order, that it ends
\* with and whose removal leaves more than one character (codepoint),
\* Cyrillic or Latin; it is returned unchanged when no entry qualifies.
C11_FirstQualifyingSuffix ==
  st_pc = "done" =>
    LET table == TableOf(st_term)
        q == Qualifying(st_term, table)
    IN IF Len(st_term) <= 2 \/ q = {} THEN st_out = st_term
       ELSE LET first == CHOOSE k \in q : \A j \in q : k <= j
            IN st_out = Remainder(st_term, Len(table[first]))

\* no entry of table is preceded by a shorter entry that is a suffix of it
LongestFirst(table) ==
  \A j \in 1..Len(table) : \A k \in 1..(j - 1) :
    ~(Len(table[k]) < Len(table[j]) /\ EndsWith(table[j], table[k]))

\* the entries of table that term ends with and that strip_suffix may remove
Removable(term, table) ==
  {k \in 1..Len(table) :
     EndsWith(term, table[k]) /\ Len(term) > Len(table[k]) + 1}

\* C12: the table stem_token selects for a term, Russian or English, is
\* ordered longest-first, and stem_token strips the longest entry of it that
\* the term ends with and that leaves a valid remainder.
C12_LongestSuffixStripped ==
  st_pc = "done" =>
    LET table == TableOf(st_term)
        r == Removable(st_term, table)
    IN /\ LongestFirst(table)
       /\ (Len(st_term) > 2 /\ r # {}) =>
            \A k \in r : Len(st_term) - Len(st_out) >= Len(table[k])

\* C14: with lowercasing on, every term t that tokenize returns is a fixed
\* point: tokenize(t), under the same configuration, is the one-element
\* sequence of t.
C14_TokenizeIdempotent ==
  (tk_pc = "done" /\ tk_cfg.lowercase) =>
    \A k \in 1..Len(tk_tokens) :
      tokenize(tk_tokens[k], tk_cfg) = <<tk_tokens[k]>>

\* C15: when the evaluation of a query does not underflow and its postfix
\* program is not empty, the stack holds exactly one entry when the program
\* ends.
C15_OneEntryLeft ==
  (outcome = "ok" /\ to_postfix(Infix) # <<>>) =>
    evaluate(loaded.idx, to_postfix(Infix)).depth = 1

\* the index load_index gives for the file of the session
FreshIndex == load_index(file.data, 0, TRUE).idx

\* C13: whatever queries were answered since the load, the document table
\* and the postings map are those the load produced (no term added, no list
\* changed), and the answer to the last query is the answer the freshly
\* loaded index gives it.
C13_IndexUnchangedByQueries ==
  s_pc \in {"serving", "exited", "crashed"} =>
    LET fresh == FreshIndex IN
      /\ loaded.idx.docs = fresh.docs
      /\ loaded.idx.postings = fresh.postings
      /\ outcome = "ok" =>
           LET a == evaluate(fresh, to_postfix(Infix)) IN
             result = a.value /\ printed = print_docs(fresh, a.value)

\* C13 witness: on the end-to-end index, 'run' is answered with both
\* documents as the second query of a session, the index still holding its
\* five terms.
C13_Witness ==
  /\ s_pc = "serving" /\ asked = 2 /\ outcome = "ok"
  /\ query = Q_run /\ result = <<0, 1>> /\ printed = <<s_d1, s_d2>>
  /\ loaded.idx = E2EIndex
  /\ Cardinality(DOMAIN loaded.idx.postings) = 5

====
